---------------------------- MODULE Spec2Model ----------------------------
(***************************************************************************)
(* Ludonomia: the naming-template engine of src/src/App.tsx (the third,    *)
(* current revision of the App component, lines 813-1471).                 *)
(*                                                                         *)
(* The React state of App is the state of the model: config (the Project), *)
(* activeNameSet, templateOrder (the displayed template) and selections    *)
(* (the Selection State).  Every handler of App is one action: the state   *)
(* setters a handler calls are batched by React and applied together, and  *)
(* the JavaScript event loop runs one handler at a time.  The only         *)
(* asynchronous operation is the file read of handleLoadProject: the       *)
(* handler starts a FileReader and returns, and reader.onload runs later,  *)
(* as a handler of its own, after any number of other handlers.            *)
(*                                                                         *)
(* A JavaScript object (Record<string, T>) is a sequence of <<key, value>> *)
(* entries in the order Object.keys gives: the keys that are array indices *)
(* first, in ascending numeric order, then the other keys in insertion     *)
(* order.  An object with optional fields is a record whose DOMAIN holds   *)
(* the fields present.                                                     *)
(***************************************************************************)
EXTENDS Naturals, Sequences, FiniteSets, TLC

VARIABLES
    config,         \* useState<ConfigObj>: the Project
    activeNameSet,  \* useState<string>: name of the active NameSet
    templateOrder,  \* useState<string[]>: the displayed template
    selections,     \* useState<Record<string,string>>: Selection State
    pending,        \* FileReaders whose read has not completed yet
    steps,          \* how many handlers have run
    last,           \* the handler that ran last, its arguments and outcome
    gen             \* the Combinatorial Generator: the enumeration under way

vars == <<config, activeNameSet, templateOrder, selections, pending, steps,
         last, gen>>

\* the state of the engine
State == <<config, activeNameSet, templateOrder, selections>>

-----------------------------------------------------------------------------
(* JavaScript objects and arrays *)

Range(s) == {s[i] : i \in DOMAIN s}

\* Object.keys(o)
ObjKeys(o) == [i \in DOMAIN o |-> o[i][1]]

KeySet(o) == {o[i][1] : i \in DOMAIN o}

\* k in o
ObjHas(o, k) == \E i \in DOMAIN o : o[i][1] = k

\* o[k], for a key of o
ObjGet(o, k) == o[CHOOSE i \in DOMAIN o : o[i][1] = k][2]

\* the keys that are array indices, of those this model uses: "0" to "9"
Digits == <<"0", "1", "2", "3", "4", "5", "6", "7", "8", "9">>

IsArrayIndex(k) == \E d \in DOMAIN Digits : Digits[d] = k

IndexValue(k) == (CHOOSE d \in DOMAIN Digits : Digits[d] = k) - 1

\* {...o, [k]: v}: an existing key keeps its place; a new key goes last,
\* unless it is an array index: array indices come first, in ascending
\* numeric order
ObjPut(o, k, v) ==
    IF ObjHas(o, k)
    THEN [i \in DOMAIN o |-> IF o[i][1] = k THEN <<k, v>> ELSE o[i]]
    ELSE IF IsArrayIndex(k)
    THEN LET n == Cardinality({i \in DOMAIN o :
                                 /\ IsArrayIndex(o[i][1])
                                 /\ IndexValue(o[i][1]) < IndexValue(k)})
         IN  SubSeq(o, 1, n) \o << <<k, v>> >> \o SubSeq(o, n + 1, Len(o))
    ELSE Append(o, <<k, v>>)

\* some of the property names every object inherits from Object.prototype
ObjectPrototype ==
    {"constructor", "toString", "toLocaleString", "valueOf",
     "hasOwnProperty", "isPrototypeOf", "propertyIsEnumerable", "__proto__"}

\* if (o[k]): the values of the objects here are objects, which are truthy,
\* and so are the members o inherits from Object.prototype
Truthy(o, k) == ObjHas(o, k) \/ k \in ObjectPrototype

\* array.includes(x)
Includes(array, x) == \E i \in DOMAIN array : array[i] = x

\* array.indexOf(x), 1-based; 0 stands for JavaScript's -1
IndexOf(array, x) ==
    IF Includes(array, x)
    THEN CHOOSE i \in DOMAIN array :
            array[i] = x /\ \A j \in 1..(i - 1) : array[j] # x
    ELSE 0

\* array.filter(t => t !== x)
FilterOut(array, x) == SelectSeq(array, LAMBDA t : t # x)

\* string.trim() of a text-field value.  A text-field value is a sequence
\* of chunks, each the blank " " or a word without blanks; the values of
\* this model hold at most one word, so trim() leaves that word or "".
Trim(raw) ==
    LET words == SelectSeq(raw, LAMBDA c : c # " ")
    IN  IF words = <<>> THEN "" ELSE words[1]

-----------------------------------------------------------------------------
(* Data types and default config *)

ElementDef(terms) == [terms |-> terms]

NameSetDef(template, delimiter, group, tags) ==
    [template |-> template, delimiter |-> delimiter,
     group |-> group, tags |-> tags]

DEFAULT_CONFIG ==
    [project_name |-> "Ludonomia",
     nameSets |-> <<
        <<"Locomotion",
          NameSetDef(<<"Sound Type", "CharacterID", "SurfaceType", "Action">>,
                     "_", "Movement", <<"Foley", "Core">>)>>,
        <<"Weapons",
          NameSetDef(<<"Sound Type", "WeaponID", "FireMode", "Distance">>,
                     "_", "Combat", <<"Guns", "Explosives">>)>> >>,
     elements |-> <<
        <<"Sound Type", ElementDef(<<"SFX", "VO", "MX", "AMB">>)>>,
        <<"SurfaceType",
          ElementDef(<<"Dirt", "Rock", "Metal", "Wood", "Water", "Grass">>)>>,
        <<"CharacterID", ElementDef(<<"Hero", "EnemyA", "Boss1", "NPC">>)>>,
        <<"Action",
          ElementDef(<<"Footstep", "Jump", "Land", "Slide", "Foley">>)>>,
        <<"WeaponID",
          ElementDef(<<"Pistol", "Rifle", "Shotgun", "RocketLauncher">>)>>,
        <<"FireMode", ElementDef(<<"Single", "Burst", "Auto", "Reload">>)>>,
        <<"Distance", ElementDef(<<"Close", "Med", "Far">>)>> >>]

-----------------------------------------------------------------------------
(* Project files *)

\* A project file is the text of a JSON document.  The model keeps the
\* document's string tokens, which is what handleLoadProject's text
\* replacement and JSON.parse act on: whether the text parses at all, the
\* top-level key of the NameSet mapping and of the Element mapping (Absent
\* when the document has no such mapping), and the entries of both.
Absent == "<absent>"

RawNameSet(template, delimiter) ==
    [template |-> template, delimiter |-> delimiter]

\* a document already in the current schema; a Term is literally "presets"
\* and a group is literally "categories"
FileCurrent ==
    [parses |-> TRUE, project_name |-> "Proj",
     nsKey |-> "nameSets",
     nameSets |-> <<
        <<"A", NameSetDef(<<"X", "Y", "X">>, "", "G", <<"t1">>)>>,
        <<"B", NameSetDef(<<"Y">>, "-", "categories", <<>>)>> >>,
     elKey |-> "elements",
     elements |-> <<
        <<"X", ElementDef(<<"a", "presets", "b">>)>>,
        <<"Y", ElementDef(<<>>)>> >>]

\* a first-revision document: presets / categories, no group, no tags
FileLegacy ==
    [parses |-> TRUE, project_name |-> "Old",
     nsKey |-> "presets",
     nameSets |-> << <<"A", RawNameSet(<<"X", "Y">>, "_")>> >>,
     elKey |-> "categories",
     elements |-> <<
        <<"X", ElementDef(<<"a", "b">>)>>,
        <<"Y", ElementDef(<<"c">>)>> >>]

\* a second-revision document: nameSets / wildcards
FileWildcards ==
    [parses |-> TRUE, project_name |-> "Mid",
     nsKey |-> "nameSets",
     nameSets |-> << <<"A", NameSetDef(<<"X">>, "_", "G", <<>>)>> >>,
     elKey |-> "wildcards",
     elements |-> << <<"X", ElementDef(<<"a", "b">>)>> >>]

\* a document with both mappings empty
FileEmpty ==
    [parses |-> TRUE, project_name |-> "Empty",
     nsKey |-> "nameSets", nameSets |-> <<>>,
     elKey |-> "elements", elements |-> <<>>]

\* a document without a NameSet mapping
FileNoNameSets ==
    [parses |-> TRUE, project_name |-> "Half",
     nsKey |-> Absent, nameSets |-> <<>>,
     elKey |-> "elements",
     elements |-> << <<"X", ElementDef(<<"a">>)>> >>]

\* a document with an Element object that has no terms array
FileNoTerms ==
    [parses |-> TRUE, project_name |-> "Broken",
     nsKey |-> "nameSets",
     nameSets |-> << <<"A", NameSetDef(<<"X">>, "-", "", <<>>)>> >>,
     elKey |-> "elements",
     elements |-> <<
        <<"X", ElementDef(<<"a">>)>>,
        <<"Y", [color |-> "red"]>> >>]

\* a document in the current schema that was edited by hand: a template
\* names an Element the document does not have, and a Term is listed twice
FileUnvalidated ==
    [parses |-> TRUE, project_name |-> "Edited",
     nsKey |-> "nameSets",
     nameSets |-> << <<"A", NameSetDef(<<"X", "Z">>, "_", "", <<>>)>> >>,
     elKey |-> "elements",
     elements |-> << <<"X", ElementDef(<<"a", "a">>)>> >>]

\* a document in the current schema whose first NameSet has the empty
\* string for its name
FileBlankName ==
    [parses |-> TRUE, project_name |-> "Blank",
     nsKey |-> "nameSets",
     nameSets |-> << <<"", NameSetDef(<<"X", "Y">>, "_", "", <<>>)>> >>,
     elKey |-> "elements",
     elements |-> <<
        <<"X", ElementDef(<<"a">>)>>,
        <<"Y", ElementDef(<<"c">>)>> >>]

\* text that is not JSON
FileGarbage ==
    [parses |-> FALSE, project_name |-> "", nsKey |-> Absent,
     nameSets |-> <<>>, elKey |-> Absent, elements |-> <<>>]

FileNames ==
    {"current", "legacy", "wildcards", "empty", "nonamesets", "noterms",
     "unvalidated", "blankname", "garbage"}

File(name) ==
    CASE name = "current" -> FileCurrent
      [] name = "legacy" -> FileLegacy
      [] name = "wildcards" -> FileWildcards
      [] name = "empty" -> FileEmpty
      [] name = "nonamesets" -> FileNoNameSets
      [] name = "noterms" -> FileNoTerms
      [] name = "unvalidated" -> FileUnvalidated
      [] name = "blankname" -> FileBlankName
      [] name = "garbage" -> FileGarbage

-----------------------------------------------------------------------------
(* handleLoadProject: the migration layer *)

\* parsedResult.replace(/"presets"/g, '"nameSets"') and then
\* .replace(/"categories"/g, '"elements"'), on one string token of the
\* text: the pattern matches a token's text wherever the token stands,
\* be it a key or a value.
TextReplace(token) ==
    IF token = "presets" THEN "nameSets"
    ELSE IF token = "categories" THEN "elements"
    ELSE token

ReplaceArray(array) == [i \in DOMAIN array |-> TextReplace(array[i])]

\* the replacement on every string value of one object of the text; the
\* field names (template, delimiter, group, tags, terms, color) match no
\* pattern
ReplaceFields(def) ==
    [f \in DOMAIN def |->
        IF f \in {"template", "tags", "terms"}
        THEN ReplaceArray(def[f])
        ELSE TextReplace(def[f])]

ReplaceEntries(entries) ==
    [i \in DOMAIN entries |->
        <<TextReplace(entries[i][1]), ReplaceFields(entries[i][2])>>]

\* the text after both replacements (lines 1029-1035)
ReplaceText(file) ==
    [parses |-> file.parses,
     project_name |-> TextReplace(file.project_name),
     nsKey |-> TextReplace(file.nsKey),
     nameSets |-> ReplaceEntries(file.nameSets),
     elKey |-> TextReplace(file.elKey),
     elements |-> ReplaceEntries(file.elements)]

\* JSON.parse of one object of the text: a key that occurs again keeps
\* its first place and takes its last value
RECURSIVE JSONParseObject(_)
JSONParseObject(entries) ==
    IF entries = <<>> THEN <<>>
    ELSE LET n == Len(entries)
         IN  ObjPut(JSONParseObject(SubSeq(entries, 1, n - 1)),
                    entries[n][1], entries[n][2])

\* JSON.parse(parsedResult) as ConfigObj, for a text that parses: the
\* fields nameSets and elements are there when the text has these keys
JSONParse(text) ==
    LET ns == IF text.nsKey = "nameSets"
              THEN [nameSets |-> JSONParseObject(text.nameSets)]
              ELSE <<>>
        el == IF text.elKey = "elements"
              THEN [elements |-> JSONParseObject(text.elements)]
              ELSE <<>>
    IN  [project_name |-> text.project_name] @@ ns @@ el

\* !loadedConfig.nameSets || !loadedConfig.elements (line 1039)
InvalidProjectFormat(loadedConfig) ==
    \/ "nameSets" \notin DOMAIN loadedConfig
    \/ "elements" \notin DOMAIN loadedConfig

\* lines 1044-1047: group and tags of every NameSet are made to exist
Backfill(loadedConfig) ==
    [loadedConfig EXCEPT !.nameSets =
        [i \in DOMAIN @ |->
            LET ns == @[i][2]
                g == IF "group" \in DOMAIN ns THEN <<>> ELSE [group |-> ""]
                t == IF "tags" \in DOMAIN ns THEN <<>> ELSE [tags |-> <<>>]
            IN  <<@[i][1], ns @@ g @@ t>>]]

\* whether the try block throws before any state setter is called: the
\* text does not parse (line 1037) or a mapping is missing (line 1040)
LoadRejects(file) ==
    \/ ~file.parses
    \/ InvalidProjectFormat(JSONParse(ReplaceText(file)))

\* loadedConfig as handed to setConfig (lines 1026-1049)
LoadedConfig(file) == Backfill(JSONParse(ReplaceText(file)))

\* lines 1051-1058: the value handed to setActiveNameSet
LoadedActiveNameSet(loadedConfig) ==
    LET keys == ObjKeys(loadedConfig.nameSets)
    IN  IF keys # <<>> /\ keys[1] # "" THEN keys[1] ELSE ""

\* lines 1051-1058: the value handed to setTemplateOrder
LoadedTemplateOrder(loadedConfig) ==
    LET first == LoadedActiveNameSet(loadedConfig)
    IN  IF first # ""
        THEN ObjGet(loadedConfig.nameSets, first).template
        ELSE <<>>

\* loadedConfig.elements[wc].terms[0] throws a TypeError for an Element
\* without a terms array (line 1062), after setConfig, setActiveNameSet
\* and setTemplateOrder were called
SelectionsThrow(loadedConfig) ==
    \E i \in DOMAIN loadedConfig.elements :
        "terms" \notin DOMAIN loadedConfig.elements[i][2]

\* terms[0] || ""
FirstTermOrEmpty(terms) == IF terms # <<>> THEN terms[1] ELSE ""

\* defaultSels laid over the selections there were
LoadedSelectionsMerged(loadedConfig) ==
    [wc \in KeySet(loadedConfig.elements) |->
        FirstTermOrEmpty(ObjGet(loadedConfig.elements, wc).terms)]
    @@ selections

\* lines 1060-1063: defaultSels
LoadedSelections(loadedConfig) ==
    [wc \in KeySet(loadedConfig.elements) |->
        FirstTermOrEmpty(ObjGet(loadedConfig.elements, wc).terms)]

-----------------------------------------------------------------------------
(* Inputs of the handlers *)

\* how many handlers run in one behaviour of the model
MaxSteps == 3

\* the Elements the user adds Terms to, removes Terms from and selects in
ElementInputs == {"Distance", "X", "Y", "E1"}

\* what the user types into an add-term field (trimmed, not empty)
TermInputs == {"Close", "a", "t"}

\* what the user types into the new-NameSet field
NameSetNameInputs ==
    {<<" ">>, <<"NS1">>, <<" ", "NS1">>, <<"Weapons">>, <<"A">>, <<"7">>}

\* what the user types into the new-Element field
ElementNameInputs ==
    {<<" ">>, <<"E1">>, <<" ", "E1">>, <<"Distance">>, <<"X">>,
     <<"constructor">>}

\* what the user types into the Group field of the active NameSet
GroupInputs == {"", "Combat"}

\* what the user types into the Tags field of the active NameSet: chunks
\* that are the comma ",", the blank " " or a word
TagsInputs ==
    {<<>>,
     <<"ui", ",", " ", "Guns">>,
     <<" ", "gun", " ", ",", ",", "gun">>}

\* stands for "no file chosen" and for "dropped on nothing"
None == "<none>"

\* the record kept in last; a handler fills in the fields it has
Ran(op, res) ==
    [op |-> op, res |-> res, element |-> None, term |-> None, raw |-> <<>>,
     file |-> None, during |-> FALSE, from |-> 0, to |-> 0, field |-> None]

\* one more handler runs; no handler of App touches the generator
Step == steps < MaxSteps /\ steps' = steps + 1 /\ UNCHANGED gen

\* the reads in flight after a handler has run: a handler that changed
\* the state is noted in each of them
Touch(reads, changed) ==
    IF changed THEN {[r EXCEPT !.during = TRUE] : r \in reads} ELSE reads

-----------------------------------------------------------------------------
(* The Combinatorial Generator (README.md line 31).  Its code is not in     *)
(* src/; it is modelled from section 4.5 of the specification as a lazy     *)
(* iterator over the active NameSet's template.                             *)

\* how often an enumeration is started in one behaviour of the model
MaxRuns == 2

\* no enumeration was started yet
GenIdle ==
    [status |-> "idle", runs |-> 0, totalCount |-> 0, idx |-> <<>>,
     yielded |-> <<>>, previous |-> <<>>]

\* factor i ranges over elements[template[i]].terms
Factors(template, elements) ==
    [i \in DOMAIN template |-> ObjGet(elements, template[i]).terms]

Sizes(factors) == [i \in DOMAIN factors |-> Len(factors[i])]

RECURSIVE Product(_)
Product(sizes) ==
    IF sizes = <<>> THEN 1 ELSE sizes[1] * Product(Tail(sizes))

\* product of the factor sizes, 0 if any factor size is 0; an empty
\* template enumerates to an empty result set (section 3)
totalCount(sizes) == IF sizes = <<>> THEN 0 ELSE Product(sizes)

\* the tuple the odometer shows
TupleAt(idx, factors) == [i \in DOMAIN factors |-> factors[i][idx[i]]]

\* the last slot of the odometer shows its last Term
AtLastOfLastSlot(idx, sizes) == idx[Len(sizes)] = sizes[Len(sizes)]

\* the odometer shows the last tuple
AtLast(idx, sizes) == \A i \in DOMAIN sizes : idx[i] = sizes[i]

\* the odometer turned on by one: the first slot varies fastest
AdvanceFirstFastest(idx, sizes) ==
    LET slot == CHOOSE i \in DOMAIN sizes :
                    /\ idx[i] < sizes[i]
                    /\ \A j \in 1..(i - 1) : idx[j] = sizes[j]
    IN  [i \in DOMAIN sizes |->
            IF i < slot THEN 1 ELSE IF i = slot THEN idx[i] + 1 ELSE idx[i]]

\* the odometer turned on by one: the last slot varies fastest; the slots
\* after the one that moves go back to their first Term
Advance(idx, sizes) ==
    LET slot == CHOOSE i \in DOMAIN sizes :
                    /\ idx[i] < sizes[i]
                    /\ \A j \in (i + 1)..Len(sizes) : idx[j] = sizes[j]
    IN  [i \in DOMAIN sizes |->
            IF i > slot THEN 1 ELSE IF i = slot THEN idx[i] + 1 ELSE idx[i]]

\* the Projects and active NameSets an enumeration is started on: the
\* default Project, loaded Projects, and a NameSet created with an empty
\* template; no template of them names a missing Element
GenProjects ==
    LET empty == LoadedConfig(FileEmpty)
    IN  {DEFAULT_CONFIG, LoadedConfig(FileCurrent), LoadedConfig(FileLegacy),
         [empty EXCEPT !.nameSets =
             ObjPut(@, "NS1", NameSetDef(<<>>, "_", "", <<>>))]}

\* enumerate is invoked: totalCount is there before any tuple is; an
\* enumeration under way is given up
enumerateStart ==
    LET factors == Factors(templateOrder, config.elements)
        count == totalCount(Sizes(factors))
    IN  /\ gen.runs < MaxRuns
        /\ gen' = [status |-> IF count = 0 THEN "done" ELSE "running",
                   runs |-> gen.runs + 1,
                   totalCount |-> count,
                   idx |-> [i \in DOMAIN factors |-> 1],
                   yielded |-> <<>>,
                   previous |-> IF gen.status = "done"
                                THEN gen.yielded
                                ELSE gen.previous]
        /\ UNCHANGED <<config, activeNameSet, templateOrder, selections,
                       pending, steps, last>>

\* the caller takes the next tuple of the lazy sequence
enumerateNext ==
    LET factors == Factors(templateOrder, config.elements)
        sizes == Sizes(factors)
    IN  /\ gen.status = "running"
        /\ gen' = [gen EXCEPT
                      !.yielded = Append(@, TupleAt(gen.idx, factors)),
                      !.idx = IF AtLast(gen.idx, sizes) THEN @
                              ELSE Advance(@, sizes),
                      !.status = IF AtLast(gen.idx, sizes) THEN "done"
                                 ELSE "running"]
        /\ UNCHANGED <<config, activeNameSet, templateOrder, selections,
                       pending, steps, last>>

InitGen ==
    /\ config \in GenProjects
    /\ activeNameSet \in KeySet(config.nameSets)
    /\ templateOrder = ObjGet(config.nameSets, activeNameSet).template
    /\ selections = LoadedSelections(config)
    /\ pending = {}
    /\ steps = 0
    /\ last = Ran("init", "ok")
    /\ gen = GenIdle

NextGen == enumerateStart \/ enumerateNext

SpecGen == InitGen /\ [][NextGen]_vars

-----------------------------------------------------------------------------
(* The App component *)

\* lines 988-995: the initial Selection State, terms[0] of every Element
InitialSelections(cfg) ==
    [wc \in KeySet(cfg.elements) |-> ObjGet(cfg.elements, wc).terms[1]]

Init ==
    /\ config = DEFAULT_CONFIG
    /\ activeNameSet = "Locomotion"
    /\ templateOrder = ObjGet(DEFAULT_CONFIG.nameSets, "Locomotion").template
    /\ selections = InitialSelections(DEFAULT_CONFIG)
    /\ pending = {}
    /\ steps = 0
    /\ last = Ran("init", "ok")
    /\ gen = GenIdle

\* lines 1019-1023 and 1073: a file is chosen and its read is started
handleLoadProject(file) ==
    /\ Step
    /\ file \in FileNames
    /\ \A r \in pending : r.file # file
    /\ pending' = pending \cup {[file |-> file, during |-> FALSE]}
    /\ last' = [Ran("handleLoadProject", "reading") EXCEPT !.file = file]
    /\ UNCHANGED <<config, activeNameSet, templateOrder, selections>>

\* line 1021: the change event carries no file
handleLoadProjectNoFile ==
    /\ Step
    /\ last' = Ran("handleLoadProject", "nofile")
    /\ UNCHANGED <<config, activeNameSet, templateOrder, selections, pending>>

\* lines 1024-1072: reader.onload, when the read of r has completed
readerOnload(r) ==
    LET file == File(r.file)
        loadedConfig == LoadedConfig(file)
        done(res) == [Ran("onload", res) EXCEPT !.file = r.file,
                                                !.during = r.during]
    IN  /\ Step
        /\ r \in pending
        /\ IF LoadRejects(file)
           THEN /\ last' = done("rejected")
                /\ UNCHANGED <<config, activeNameSet, templateOrder,
                               selections>>
           ELSE /\ config' = loadedConfig
                /\ activeNameSet' = LoadedActiveNameSet(loadedConfig)
                /\ templateOrder' = LoadedTemplateOrder(loadedConfig)
                /\ IF SelectionsThrow(loadedConfig)
                   THEN /\ last' = done("threw")
                        /\ UNCHANGED selections
                   ELSE /\ last' = done("loaded")
                        /\ selections' = LoadedSelections(loadedConfig)
        /\ pending' = Touch(pending \ {r}, State' # State)

\* lines 1077-1080, called with a name the NameSet lists offer.  For a
\* NameSet without a template the displayed template becomes undefined and
\* React throws while it renders; that is not a step of this model.
handleNameSetChange(nameSetName) ==
    /\ Step
    /\ ObjHas(config.nameSets, nameSetName)
    /\ "template" \in DOMAIN ObjGet(config.nameSets, nameSetName)
    /\ activeNameSet' = nameSetName
    /\ templateOrder' = ObjGet(config.nameSets, nameSetName).template
    /\ last' = [Ran("handleNameSetChange", "ok")
                EXCEPT !.raw = <<nameSetName>>]
    /\ UNCHANGED <<config, selections>>
    /\ pending' = Touch(pending, State' # State)


\* arrayMove of @dnd-kit/sortable (imported at line 824): a copy of the
\* array with the entry at index from taken out and put back at index to.
\* Indices are 1-based here.
arrayMove(array, from, to) ==
    LET without == [i \in 1..(Len(array) - 1) |->
                        IF i < from THEN array[i] ELSE array[i + 1]]
    IN  [i \in 1..Len(array) |->
            IF i < to THEN without[i]
            ELSE IF i = to THEN array[from]
            ELSE without[i - 1]]

\* the dragged entry written over the entry it is dropped on
DragEndOrderOverwrite(items, activeId, overId) ==
    [i \in DOMAIN items |->
        IF i = IndexOf(items, overId) THEN activeId ELSE items[i]]

\* lines 1086-1090: the updater handed to setTemplateOrder
DragEndOrder(items, activeId, overId) ==
    LET oldIndex == IndexOf(items, activeId)
        newIndex == IndexOf(items, overId)
    IN  arrayMove(items, oldIndex, newIndex)

\* lines 1083-1092.  The user drags the entry shown at position from and
\* drops it on the entry shown at position to, or on nothing (to = 0: the
\* event's over is null).  The event names both entries by their id, and
\* the id of an entry is its Element name (lines 1450-1453).
handleDragEnd(from, to) ==
    LET activeId == templateOrder[from]
        overId == IF to = 0 THEN None ELSE templateOrder[to]
        ran(res) == [Ran("handleDragEnd", res) EXCEPT !.from = from, !.to = to]
    IN  /\ Step
        /\ from \in DOMAIN templateOrder
        /\ to \in {0} \cup DOMAIN templateOrder
        /\ IF to # 0 /\ activeId # overId
           THEN /\ templateOrder' =
                        DragEndOrder(templateOrder, activeId, overId)
                /\ last' = ran("moved")
           ELSE /\ UNCHANGED templateOrder
                /\ last' = ran("ignored")
        /\ UNCHANGED <<config, activeNameSet, selections>>
        /\ pending' = Touch(pending, State' # State)

\* the previous selections handed back as they were
SelectionChangeDropped(prev, element, value) == prev

\* lines 1095-1097
SelectionChange(prev, element, value) == (element :> value) @@ prev

\* handleSelectionChange as the select box of a displayed Element calls it
\* (lines 936-945 and 1457): with a Term the box offers
handleSelectionChange(element, value) ==
    /\ Step
    /\ element \in Range(templateOrder) \cap ElementInputs
    /\ ObjHas(config.elements, element)
    /\ "terms" \in DOMAIN ObjGet(config.elements, element)
    /\ value \in Range(ObjGet(config.elements, element).terms)
    /\ selections' = SelectionChange(selections, element, value)
    /\ last' = [Ran("handleSelectionChange", "ok")
                EXCEPT !.element = element, !.term = value]
    /\ UNCHANGED <<config, activeNameSet, templateOrder>>
    /\ pending' = Touch(pending, State' # State)

\* lines 1107-1108: what a new NameSet is cloned from
CurrentTemplate(cfg, active) ==
    IF /\ ObjHas(cfg.nameSets, active)
       /\ "template" \in DOMAIN ObjGet(cfg.nameSets, active)
    THEN ObjGet(cfg.nameSets, active).template
    ELSE <<>>

CurrentDelimiter(cfg, active) ==
    IF /\ ObjHas(cfg.nameSets, active)
       /\ "delimiter" \in DOMAIN ObjGet(cfg.nameSets, active)
       /\ ObjGet(cfg.nameSets, active).delimiter # ""
    THEN ObjGet(cfg.nameSets, active).delimiter
    ELSE "_"

\* an updater that stores no NameSet
CreateNameSetConfigDropped(prev, trimmed, currentTemplate, currentDelimiter) ==
    prev

\* lines 1110-1121: the updater handed to setConfig
CreateNameSetConfig(prev, trimmed, currentTemplate, currentDelimiter) ==
    [prev EXCEPT !.nameSets =
        ObjPut(@, trimmed,
               NameSetDef(currentTemplate, currentDelimiter, "", <<>>))]

\* lines 1100-1126, with newNameSetName = raw
handleCreateNameSet(raw) ==
    LET trimmed == Trim(raw)
        currentTemplate == CurrentTemplate(config, activeNameSet)
        currentDelimiter == CurrentDelimiter(config, activeNameSet)
        ran(res) == [Ran("handleCreateNameSet", res) EXCEPT !.raw = raw]
    IN  /\ Step
        /\ raw \in NameSetNameInputs
        /\ IF trimmed = ""
           THEN /\ last' = ran("blank")
                /\ UNCHANGED <<config, activeNameSet, templateOrder>>
           ELSE IF Truthy(config.nameSets, trimmed)
           THEN /\ last' = ran("duplicate")
                /\ UNCHANGED <<config, activeNameSet, templateOrder>>
           ELSE /\ config' = CreateNameSetConfig(config, trimmed,
                                  currentTemplate, currentDelimiter)
                /\ activeNameSet' = trimmed
                /\ templateOrder' = currentTemplate
                /\ last' = ran("created")
        /\ UNCHANGED selections
        /\ pending' = Touch(pending, State' # State)

\* lines 1135-1141: the updater handed to setConfig
CreateElementConfig(prev, trimmed) ==
    [prev EXCEPT !.elements = ObjPut(@, trimmed, ElementDef(<<>>))]

\* lines 1128-1144, with newElementName = raw
handleCreateElement(raw) ==
    LET trimmed == Trim(raw)
        ran(res) == [Ran("handleCreateElement", res) EXCEPT !.raw = raw]
    IN  /\ Step
        /\ raw \in ElementNameInputs
        /\ IF trimmed = ""
           THEN /\ last' = ran("blank")
                /\ UNCHANGED config
           ELSE IF Truthy(config.elements, trimmed)
           THEN /\ last' = ran("duplicate")
                /\ UNCHANGED config
           ELSE /\ config' = CreateElementConfig(config, trimmed)
                /\ last' = ran("created")
        /\ UNCHANGED <<activeNameSet, templateOrder, selections>>
        /\ pending' = Touch(pending, State' # State)

\* lines 1147-1159: the updater handed to setConfig
RemoveElementTermConfig(prev, element, termToRemove) ==
    LET wc == ObjGet(prev.elements, element)
    IN  [prev EXCEPT !.elements =
            ObjPut(@, element,
                   [wc EXCEPT !.terms = FilterOut(wc.terms, termToRemove)])]

\* lines 1146-1160, as the remove button of a Term badge calls it (lines
\* 1399-1402): with an Element of the Project and one of its Terms
handleRemoveElementTerm(element, termToRemove) ==
    /\ Step
    /\ element \in ElementInputs
    /\ ObjHas(config.elements, element)
    /\ "terms" \in DOMAIN ObjGet(config.elements, element)
    /\ termToRemove \in Range(ObjGet(config.elements, element).terms)
    /\ config' = RemoveElementTermConfig(config, element, termToRemove)
    /\ last' = [Ran("handleRemoveElementTerm", "ok")
                EXCEPT !.element = element, !.term = termToRemove]
    /\ UNCHANGED <<activeNameSet, templateOrder, selections>>
    /\ pending' = Touch(pending, State' # State)

\* lines 1178-1193: the updater handed to setConfig
AddTermConfig(prev, element, term) ==
    LET wc == ObjGet(prev.elements, element)
    IN  IF ~Includes(wc.terms, term)
        THEN [prev EXCEPT !.elements =
                ObjPut(@, element,
                       [wc EXCEPT !.terms = Append(wc.terms, term)])]
        ELSE prev

\* lines 1177-1196, as the add-term fields call it (lines 954-967, 1411-1418
\* and 1458): with an Element of the Project and a trimmed, non-empty text.
\* For a name that is no Element, or an Element without terms, the updater
\* throws while React renders; that is not a step of this model.
handleAddTerm(element, term) ==
    /\ Step
    /\ element \in ElementInputs
    /\ term \in TermInputs
    /\ ObjHas(config.elements, element)
    /\ "terms" \in DOMAIN ObjGet(config.elements, element)
    /\ config' = AddTermConfig(config, element, term)
    /\ selections' = SelectionChange(selections, element, term)
    /\ last' = [Ran("handleAddTerm",
                    IF Includes(ObjGet(config.elements, element).terms, term)
                    THEN "present" ELSE "inserted")
                EXCEPT !.element = element, !.term = term]
    /\ UNCHANGED <<activeNameSet, templateOrder>>
    /\ pending' = Touch(pending, State' # State)

\* string.split(','): the pieces of the text between its commas
RECURSIVE Split(_)
Split(raw) ==
    IF ~Includes(raw, ",") THEN <<raw>>
    ELSE LET i == IndexOf(raw, ",")
         IN  <<SubSeq(raw, 1, i - 1)>> \o Split(SubSeq(raw, i + 1, Len(raw)))

\* line 1253: e.target.value.split(',').map(t => t.trim()).filter(Boolean)
TagsArray(raw) ==
    LET pieces == Split(raw)
        trimmed == [i \in DOMAIN pieces |-> Trim(pieces[i])]
    IN  SelectSeq(trimmed, LAMBDA t : t # "")

\* lines 1164-1173: the updater handed to setConfig.  Spreading
\* prev.nameSets[activeNameSet] copies the fields of that NameSet, and no
\* field when there is no such NameSet.
UpdateNameSetMetaConfig(prev, active, field, value) ==
    LET old == IF ObjHas(prev.nameSets, active)
               THEN ObjGet(prev.nameSets, active)
               ELSE <<>>
    IN  [prev EXCEPT !.nameSets = ObjPut(@, active, (field :> value) @@ old)]

\* lines 1163-1174, as the Group field calls it with its text (line 1242)
\* and the Tags field with the tags parsed from its text raw (lines
\* 1252-1255)
handleUpdateNameSetMeta(field, value, raw) ==
    /\ Step
    /\ field \in {"group", "tags"}
    /\ config' = UpdateNameSetMetaConfig(config, activeNameSet, field, value)
    /\ last' = [Ran("handleUpdateNameSetMeta", "ok")
                EXCEPT !.field = field, !.raw = raw]
    /\ UNCHANGED <<activeNameSet, templateOrder, selections>>
    /\ pending' = Touch(pending, State' # State)

\* what the user picks in the group filter and types into the tag filter
\* of the Project Browser (filterGroup and filterTag, lines 998-999)
GroupFilterInputs == {"All", "Combat", ""}

TagFilterInputs == {"", " ", "gun", "GUN", "o"}

\* the characters of the strings that tags and tag filters are in this
\* model
Chars(str) ==
    CASE str = "" -> <<>>
      [] str = " " -> <<" ">>
      [] str = "o" -> <<"o">>
      [] str = "gun" -> <<"g", "u", "n">>
      [] str = "GUN" -> <<"G", "U", "N">>
      [] str = "Guns" -> <<"G", "u", "n", "s">>
      [] str = "ui" -> <<"u", "i">>
      [] str = "t1" -> <<"t", "1">>
      [] str = "Foley" -> <<"F", "o", "l", "e", "y">>
      [] str = "Core" -> <<"C", "o", "r", "e">>
      [] str = "Explosives" ->
            <<"E", "x", "p", "l", "o", "s", "i", "v", "e", "s">>

UpperCase ==
    <<"A", "B", "C", "D", "E", "F", "G", "H", "I", "J", "K", "L", "M",
      "N", "O", "P", "Q", "R", "S", "T", "U", "V", "W", "X", "Y", "Z">>

LowerCase ==
    <<"a", "b", "c", "d", "e", "f", "g", "h", "i", "j", "k", "l", "m",
      "n", "o", "p", "q", "r", "s", "t", "u", "v", "w", "x", "y", "z">>

\* string.toLowerCase(), on the characters of the string
ToLowerCase(chars) ==
    [i \in DOMAIN chars |->
        IF \E u \in DOMAIN UpperCase : UpperCase[u] = chars[i]
        THEN LowerCase[CHOOSE u \in DOMAIN UpperCase : UpperCase[u] = chars[i]]
        ELSE chars[i]]

\* string.includes(part), on the characters of both strings
StrIncludes(chars, part) ==
    \E from \in 1..(Len(chars) - Len(part) + 1) :
        SubSeq(chars, from, from + Len(part) - 1) = part

\* !string.trim(): the string is empty or all blanks
TrimIsEmpty(chars) == \A i \in DOMAIN chars : chars[i] = " "

\* line 1348
MatchesGroup(nsData, filterGroup) ==
    \/ filterGroup = "All"
    \/ "group" \in DOMAIN nsData /\ nsData.group = filterGroup

\* line 1349
MatchesTag(nsData, filterTag) ==
    \/ TrimIsEmpty(Chars(filterTag))
    \/ /\ "tags" \in DOMAIN nsData
       /\ \E i \in DOMAIN nsData.tags :
             StrIncludes(ToLowerCase(Chars(nsData.tags[i])),
                         ToLowerCase(Chars(filterTag)))

\* lines 1345-1351: the NameSets the Project Browser lists
FilteredNameSets(cfg, filterGroup, filterTag) ==
    SelectSeq(ObjKeys(cfg.nameSets),
              LAMBDA ns : /\ MatchesGroup(ObjGet(cfg.nameSets, ns), filterGroup)
                          /\ MatchesTag(ObjGet(cfg.nameSets, ns), filterTag))

\* array.join(separator) of strings.  A string built from parts is the
\* sequence of its parts; the empty separator adds no part.
RECURSIVE Join(_, _)
Join(strings, separator) ==
    IF strings = <<>> THEN <<>>
    ELSE IF Len(strings) = 1 THEN strings[1]
    ELSE strings[1] \o (IF separator = "" THEN <<>> ELSE <<separator>>)
            \o Join(Tail(strings), separator)

\* lines 1199-1203: the text of the preview bar
finalFilename ==
    Join([i \in DOMAIN templateOrder |-> <<"{", templateOrder[i], "}">>], " ")

\* every Term of the Project: what the select boxes and the Term badges
\* of the Elements offer
TermsOf(cfg) ==
    UNION {Range(cfg.elements[i][2].terms) :
              i \in {j \in DOMAIN cfg.elements :
                        "terms" \in DOMAIN cfg.elements[j][2]}}

Next ==
    \/ \E file \in FileNames : handleLoadProject(file)
    \/ handleLoadProjectNoFile
    \/ \E r \in pending : readerOnload(r)
    \/ \E nameSetName \in KeySet(config.nameSets) :
          handleNameSetChange(nameSetName)
    \/ \E from \in DOMAIN templateOrder, to \in {0} \cup DOMAIN templateOrder :
          handleDragEnd(from, to)
    \/ \E element \in ElementInputs, value \in TermsOf(config) :
          handleSelectionChange(element, value)
    \/ \E raw \in NameSetNameInputs : handleCreateNameSet(raw)
    \/ \E raw \in ElementNameInputs : handleCreateElement(raw)
    \/ \E element \in ElementInputs, term \in TermsOf(config) :
          handleRemoveElementTerm(element, term)
    \/ \E element \in ElementInputs, term \in TermInputs :
          handleAddTerm(element, term)
    \/ \E text \in GroupInputs :
          handleUpdateNameSetMeta("group", text, <<text>>)
    \/ \E raw \in TagsInputs :
          handleUpdateNameSetMeta("tags", TagsArray(raw), raw)

Spec == Init /\ [][Next]_vars

-----------------------------------------------------------------------------
(* Properties *)

\* reader.onload ran last and set the whole state from the file
Loaded == last.op = "onload" /\ last.res = "loaded"

\* a file that is already in the current schema
CurrentSchema(file) ==
    /\ file.parses
    /\ file.nsKey = "nameSets"
    /\ file.elKey = "elements"
    /\ \A i \in DOMAIN file.nameSets :
          {"group", "tags"} \subseteq DOMAIN file.nameSets[i][2]
    /\ \A i \in DOMAIN file.elements :
          "terms" \in DOMAIN file.elements[i][2]

\* C1: after a file in the current schema is loaded, every Element has
\* the terms sequence the file gives it, a Term that reads "presets" or
\* "categories" included.
C1_LoadKeepsTerms ==
    (Loaded /\ CurrentSchema(File(last.file))) =>
        \A i \in DOMAIN File(last.file).elements :
            LET entry == File(last.file).elements[i]
            IN  /\ ObjHas(config.elements, entry[1])
                /\ ObjGet(config.elements, entry[1]).terms = entry[2].terms

\* C2: a Load that reports a failure leaves the Project, the active
\* NameSet, the displayed template and the Selection State as they were.
C2_FailedLoadChangesNothing ==
    [][(last'.op = "onload" /\ last'.res # "loaded") => UNCHANGED State]_vars

\* C3: when reader.onload has loaded a file, whatever handlers ran while
\* the read was in flight, the Project is the migrated document, the
\* active NameSet is its first NameSet (none without NameSets), the
\* displayed template is that NameSet's template, and the Selection State
\* has exactly one entry per Element, its first Term (unset without
\* Terms).
C3_LoadIsAtomicSwap ==
    Loaded =>
        /\ config = LoadedConfig(File(last.file))
        /\ activeNameSet =
              (IF config.nameSets = <<>> THEN "" ELSE config.nameSets[1][1])
        /\ templateOrder =
              (IF config.nameSets = <<>> THEN <<>>
               ELSE config.nameSets[1][2].template)
        /\ DOMAIN selections = KeySet(config.elements)
        /\ \A i \in DOMAIN config.elements :
              LET terms == config.elements[i][2].terms
              IN  selections[config.elements[i][1]] =
                     (IF terms = <<>> THEN "" ELSE terms[1])

\* a file was loaded over a state that other handlers had changed while
\* the file was being read
C3_Witness ==
    /\ Loaded
    /\ last.during
    /\ config.nameSets # <<>>
    /\ config.elements # <<>>

\* how often x occurs in s
Count(s, x) == Cardinality({i \in DOMAIN s : s[i] = x})

IsPermutation(s, t) ==
    /\ Len(s) = Len(t)
    /\ \A x \in Range(s) \cup Range(t) : Count(s, x) = Count(t, x)

\* C4: a reorder leaves the displayed template a permutation of what it
\* was.
C4_ReorderIsPermutation ==
    [][last'.op = "handleDragEnd" =>
          IsPermutation(templateOrder, templateOrder')]_vars

\* a drag has changed the displayed template
C4_Witness ==
    /\ last.op = "handleDragEnd"
    /\ last.res = "moved"
    /\ templateOrder # CurrentTemplate(config, activeNameSet)
    /\ CurrentTemplate(config, activeNameSet) # <<>>

\* s without its i-th entry
RemoveAt(s, i) == SubSeq(s, 1, i - 1) \o SubSeq(s, i + 1, Len(s))

\* C5: a drag from position from to another position to puts the entry
\* of from at to and keeps the order of the other entries; a drag onto
\* its own position or onto nothing changes nothing.
C5_ReorderMovesEntry ==
    [][last'.op = "handleDragEnd" =>
          IF last'.to # 0 /\ last'.to # last'.from
          THEN /\ Len(templateOrder') = Len(templateOrder)
               /\ templateOrder'[last'.to] = templateOrder[last'.from]
               /\ RemoveAt(templateOrder', last'.to) =
                     RemoveAt(templateOrder, last'.from)
          ELSE templateOrder' = templateOrder]_vars


\* C6: addTerm of a Term the Element already has changes nothing in the
\* state; addTerm of any other Term appends it to the Element's terms.
C6_AddTermPresentIsNoOp ==
    [][last'.op = "handleAddTerm" =>
          LET terms == ObjGet(config.elements, last'.element).terms
          IN  IF Includes(terms, last'.term)
              THEN UNCHANGED State
              ELSE ObjGet(config'.elements, last'.element).terms =
                      Append(terms, last'.term)]_vars

\* C7: removeTerm takes the Term out of the Element's terms and keeps the
\* order of the others; when the Term was the Element's selection, the
\* selection becomes the first Term left, or unset when none is left.
C7_RemoveTermFallsBack ==
    [][last'.op = "handleRemoveElementTerm" =>
          LET e == last'.element
              left == ObjGet(config'.elements, e).terms
          IN  /\ left = SelectSeq(ObjGet(config.elements, e).terms,
                                  LAMBDA t : t # last'.term)
              /\ (e \in DOMAIN selections /\ selections[e] = last'.term) =>
                    IF left = <<>>
                    THEN e \notin DOMAIN selections' \/ selections'[e] = ""
                    ELSE e \in DOMAIN selections' /\ selections'[e] = left[1]
      ]_vars

\* C8: a Term inserted by the add-term flow is the Element's selection
\* afterwards; after a Load every Element's selection is its first Term,
\* not its last.
C8_AddTermSelectsLoadDoesNot ==
    /\ (last.op = "handleAddTerm" /\ last.res = "inserted") =>
          /\ last.element \in DOMAIN selections
          /\ selections[last.element] = last.term
    /\ Loaded =>
          \A i \in DOMAIN config.elements :
              LET terms == config.elements[i][2].terms
                  sel == selections[config.elements[i][1]]
              IN  terms # <<>> =>
                     /\ sel = terms[1]
                     /\ terms[Len(terms)] # terms[1] => sel # terms[Len(terms)]

\* a Term was added at the end of an Element of a loaded Project and is
\* selected, while another loaded Element of several Terms still has its
\* first Term selected
C8_Witness ==
    /\ last.op = "handleAddTerm"
    /\ last.res = "inserted"
    /\ config.project_name # DEFAULT_CONFIG.project_name
    /\ Len(ObjGet(config.elements, last.element).terms) > 1
    /\ selections[last.element] = last.term
    /\ \E i \in DOMAIN config.elements :
          LET terms == config.elements[i][2].terms
          IN  /\ config.elements[i][1] # last.element
              /\ Len(terms) > 1
              /\ terms[1] # terms[Len(terms)]
              /\ selections[config.elements[i][1]] = terms[1]

\* the text typed is a name as it stands: one word, no blanks around it
IsName(raw) == Len(raw) = 1 /\ raw[1] # " "

\* C9: createNameSet with a new name appends one NameSet that has the
\* active NameSet's template and delimiter and blank group and tags, and
\* changes nothing else of the Project; with a name of the registry it
\* reports a duplicate and changes nothing.
C9_CreateNameSetClonesActive ==
    [][(/\ last'.op = "handleCreateNameSet"
        /\ IsName(last'.raw)
        /\ ObjHas(config.nameSets, activeNameSet)
        /\ {"template", "delimiter"} \subseteq
              DOMAIN ObjGet(config.nameSets, activeNameSet)) =>
          LET name == last'.raw[1]
              active == ObjGet(config.nameSets, activeNameSet)
          IN  IF ObjHas(config.nameSets, name)
              THEN last'.res = "duplicate" /\ UNCHANGED State
              ELSE /\ config'.nameSets =
                         Append(config.nameSets,
                                <<name, NameSetDef(active.template,
                                                   active.delimiter,
                                                   "", <<>>)>>)
                   /\ config'.elements = config.elements]_vars

\* C10: createElement reports a duplicate and changes nothing exactly
\* when the name is a key of elements; otherwise it appends one Element
\* of that name without Terms and changes nothing else of the Project.
C10_CreateElementDuplicateIffKey ==
    [][(last'.op = "handleCreateElement" /\ IsName(last'.raw)) =>
          LET name == last'.raw[1]
          IN  /\ (last'.res = "duplicate" /\ UNCHANGED State)
                    <=> ObjHas(config.elements, name)
              /\ ~ObjHas(config.elements, name) =>
                    /\ config'.elements =
                          Append(config.elements, <<name, ElementDef(<<>>)>>)
                    /\ config'.nameSets = config.nameSets]_vars

\* s holds entries of t only, each once, in the order they have in t
IsSubSeqOf(s, t) ==
    \E f \in [DOMAIN s -> DOMAIN t] :
        /\ \A i \in DOMAIN s : s[i] = t[f[i]]
        /\ \A i, j \in DOMAIN s : i < j => f[i] < f[j]

\* a tag that holds the text, whatever the case of the letters
SomeTagContains(nsData, text) ==
    /\ "tags" \in DOMAIN nsData
    /\ \E i \in DOMAIN nsData.tags :
          StrIncludes(ToLowerCase(Chars(nsData.tags[i])),
                      ToLowerCase(Chars(text)))

\* the NameSets that pass the filter, as C11 says it
Passes(cfg, ns, groupFilter, tagFilter) ==
    LET nsData == ObjGet(cfg.nameSets, ns)
    IN  /\ \/ groupFilter = "All"
           \/ "group" \in DOMAIN nsData /\ nsData.group = groupFilter
        /\ \/ tagFilter = ""
           \/ SomeTagContains(nsData, tagFilter)

\* C11: the filter lists exactly the NameSets whose group is the group
\* filter (any group for "All") and one of whose tags holds the tag
\* filter, whatever the case (any tags for the empty filter), each once
\* and in the order of the unfiltered list; the unfiltered list has every
\* NameSet, and a NameSet that is created goes to its end.
C11_FilterListsMatchesInOrder ==
    /\ [](\A g \in GroupFilterInputs, t \in TagFilterInputs :
            LET listed == FilteredNameSets(config, g, t)
            IN  /\ Range(listed) =
                      {ns \in KeySet(config.nameSets) : Passes(config, ns, g, t)}
                /\ IsSubSeqOf(listed, FilteredNameSets(config, "All", "")))
    /\ [][(last'.op = "handleCreateNameSet" /\ last'.res = "created") =>
             FilteredNameSets(config', "All", "") =
                Append(FilteredNameSets(config, "All", ""),
                       activeNameSet')]_vars

\* C12: typing into the Tags field replaces the tags of the active
\* NameSet, and nothing else, by the tags the text names between its
\* commas: each without the blanks around it, none empty, none twice.
C12_TagsParsedAsSet ==
    [][(/\ last'.op = "handleUpdateNameSetMeta"
        /\ last'.field = "tags"
        /\ ObjHas(config.nameSets, activeNameSet)) =>
          LET before == ObjGet(config.nameSets, activeNameSet)
              after == ObjGet(config'.nameSets, activeNameSet)
          IN  /\ Range(after.tags) = Range(last'.raw) \ {",", " "}
              /\ \A i, j \in DOMAIN after.tags :
                    after.tags[i] = after.tags[j] => i = j
              /\ DOMAIN after = DOMAIN before \cup {"tags"}
              /\ \A f \in DOMAIN before \ {"tags"} : after[f] = before[f]
              /\ ObjKeys(config'.nameSets) = ObjKeys(config.nameSets)
              /\ \A ns \in KeySet(config.nameSets) \ {activeNameSet} :
                    ObjGet(config'.nameSets, ns) = ObjGet(config.nameSets, ns)
              /\ config'.elements = config.elements
              /\ UNCHANGED <<activeNameSet, templateOrder, selections>>]_vars

\* the Term selected for an Element, or the placeholder "[element]" when
\* none is set
SelectedOrPlaceholder(element) ==
    IF element \in DOMAIN selections /\ selections[element] # ""
    THEN <<selections[element]>>
    ELSE <<"[", element, "]">>

\* C13: the preview is the displayed template's Elements in order, each
\* as its selected Term, or as "[element]" when none is selected, with
\* the active NameSet's delimiter between them.
C13_PreviewJoinsSelections ==
    LET active == IF ObjHas(config.nameSets, activeNameSet)
                  THEN ObjGet(config.nameSets, activeNameSet)
                  ELSE <<>>
        delimiter == IF "delimiter" \in DOMAIN active
                     THEN active.delimiter
                     ELSE ""
    IN  finalFilename =
           Join([i \in DOMAIN templateOrder |->
                    SelectedOrPlaceholder(templateOrder[i])],
                delimiter)

\* the factor sizes of the enumeration: how many Terms each Element of
\* the template has
GenSizes == Sizes(Factors(templateOrder, config.elements))

\* C14 as stated: from its start an enumeration gives totalCount as the
\* product of the factor sizes, 0 when an Element of the template has no
\* Terms, and when it is done it has yielded that many tuples.
C14_CountIsProduct ==
    /\ gen.status # "idle" => gen.totalCount = Product(GenSizes)
    /\ gen.status = "done" => Len(gen.yielded) = Product(GenSizes)
    /\ (gen.status # "idle" /\ \E i \in DOMAIN GenSizes : GenSizes[i] = 0) =>
          gen.totalCount = 0 /\ gen.yielded = <<>>

\* C14 as amended: for a template that is not empty, from its start an
\* enumeration gives totalCount as the product of the factor sizes, 0
\* when an Element of the template has no Terms, and when it is done it
\* has yielded that many tuples; for an empty template totalCount is 0
\* and no tuple is yielded.
C14_CountIsProductUnlessEmpty ==
    LET count == IF GenSizes = <<>> THEN 0 ELSE Product(GenSizes)
    IN  /\ gen.status # "idle" =>
              gen.totalCount = count /\ Len(gen.yielded) <= count
        /\ gen.status = "done" => Len(gen.yielded) = count
        /\ (gen.status # "idle" /\ \E i \in DOMAIN GenSizes : GenSizes[i] = 0)
              => gen.totalCount = 0 /\ gen.yielded = <<>>

\* an enumeration over several Elements of several Terms each is done
C14_Witness ==
    /\ gen.status = "done"
    /\ Len(GenSizes) > 1
    /\ \A i \in DOMAIN GenSizes : GenSizes[i] > 1
    /\ Len(gen.yielded) = gen.totalCount
    /\ gen.totalCount > Len(GenSizes)

\* the positions of tuple number k (from 0) in its factors: the
\* mixed-radix digits of k over the factor sizes, most significant first,
\* counted from 1
MixedRadix(k, sizes) ==
    [i \in DOMAIN sizes |->
        ((k \div Product(SubSeq(sizes, i + 1, Len(sizes)))) % sizes[i]) + 1]

\* p comes before q in lexicographic order
LexLess(p, q) ==
    \E i \in DOMAIN p :
        /\ p[i] < q[i]
        /\ \A j \in 1..(i - 1) : p[j] = q[j]

\* where the Terms of a tuple stand in their Elements
Positions(tuple) ==
    LET factors == Factors(templateOrder, config.elements)
    IN  [i \in DOMAIN tuple |-> IndexOf(factors[i], tuple[i])]

\* C15: the tuples come in lexicographic order of the positions of their
\* Terms, the last slot varying fastest; tuple number k is the one at the
\* mixed-radix digits of k over the factor sizes; and an enumeration that
\* is invoked again yields the sequence it yielded before.  (Stated of
\* the tuple yielded last: every tuple is the last one in the state that
\* follows its yield.)
C15_OdometerOrder ==
    LET factors == Factors(templateOrder, config.elements)
        n == Len(gen.yielded)
    IN  /\ n > 0 =>
              gen.yielded[n] = TupleAt(MixedRadix(n - 1, GenSizes), factors)
        /\ n > 1 =>
              LexLess(Positions(gen.yielded[n - 1]), Positions(gen.yielded[n]))
        /\ n > 1 =>
              Positions(gen.yielded[2]) =
                 [i \in DOMAIN GenSizes |->
                     IF i = CHOOSE j \in DOMAIN GenSizes :
                               /\ GenSizes[j] > 1
                               /\ \A l \in (j + 1)..Len(GenSizes) :
                                     GenSizes[l] = 1
                     THEN 2 ELSE 1]
        /\ (gen.status = "done" /\ gen.previous # <<>>) =>
              gen.yielded = gen.previous

\* an enumeration over several Elements of several Terms each was done,
\* invoked again, and is done again
C15_Witness ==
    /\ gen.status = "done"
    /\ gen.runs > 1
    /\ gen.previous # <<>>
    /\ Len(GenSizes) > 1
    /\ \A i \in DOMAIN GenSizes : GenSizes[i] > 1
    /\ Len(gen.yielded) > Len(GenSizes)

\* the Project a document in the current schema spells out
InputProject(file) ==
    [project_name |-> file.project_name,
     nameSets |-> file.nameSets,
     elements |-> file.elements]

\* the document that spells out a Project
Document(cfg) ==
    [parses |-> TRUE, project_name |-> cfg.project_name,
     nsKey |-> "nameSets", nameSets |-> cfg.nameSets,
     elKey |-> "elements", elements |-> cfg.elements]

\* C16: the Project loaded from a document in the current schema is the
\* Project the document spells out, and migrating the document of a
\* loaded Project gives that Project again.
C16_MigrationIdempotent ==
    Loaded =>
        /\ CurrentSchema(File(last.file)) =>
              config = InputProject(File(last.file))
        /\ ~LoadRejects(Document(config))
        /\ LoadedConfig(Document(config)) = config

\* the document with its two mappings under the current keys
WithCurrentKeys(file) ==
    [file EXCEPT !.nsKey = "nameSets", !.elKey = "elements"]

\* the document has its mappings under keys of some revision, not both
\* under the current ones
HistoricalKeys(file) ==
    /\ file.parses
    /\ file.nsKey \in {"presets", "nameSets"}
    /\ file.elKey \in {"categories", "wildcards", "elements"}
    /\ <<file.nsKey, file.elKey>> # <<"nameSets", "elements">>

\* C17: a document with its NameSets under presets or its Elements under
\* categories or wildcards loads whenever the same document with the keys
\* nameSets and elements loads, and gives the same Project.
C17_LoadAcceptsHistoricalKeys ==
    LET file == File(last.file)
        current == WithCurrentKeys(file)
    IN  (/\ last.op = "onload"
         /\ HistoricalKeys(file)
         /\ ~LoadRejects(current)
         /\ ~SelectionsThrow(LoadedConfig(current))) =>
            /\ Loaded
            /\ config = LoadedConfig(current)

\* C18: after a Load every NameSet of the document has a group and tags:
\* those the document gives it, and the empty string and no tags where
\* the document gives none.
C18_LoadBackfillsGroupAndTags ==
    Loaded =>
        /\ \A i \in DOMAIN config.nameSets :
              {"group", "tags"} \subseteq DOMAIN config.nameSets[i][2]
        /\ \A i \in DOMAIN File(last.file).nameSets :
              LET name == File(last.file).nameSets[i][1]
                  raw == File(last.file).nameSets[i][2]
              IN  /\ ObjHas(config.nameSets, name)
                  /\ ObjGet(config.nameSets, name).group =
                        (IF "group" \in DOMAIN raw THEN raw.group ELSE "")
                  /\ ObjGet(config.nameSets, name).tags =
                        (IF "tags" \in DOMAIN raw THEN raw.tags ELSE <<>>)

\* C19: every Element a template names, the displayed template included,
\* is an Element of the Project.
C19_NoDanglingReference ==
    /\ Range(templateOrder) \subseteq KeySet(config.elements)
    /\ \A i \in DOMAIN config.nameSets :
          "template" \in DOMAIN config.nameSets[i][2] =>
             Range(config.nameSets[i][2].template)
                \subseteq KeySet(config.elements)

\* C20: no Element has a Term twice.
C20_TermsAreUnique ==
    \A i \in DOMAIN config.elements :
        "terms" \in DOMAIN config.elements[i][2] =>
           LET terms == config.elements[i][2].terms
           IN  \A j, k \in DOMAIN terms : terms[j] = terms[k] => j = k

\* C21: a step that is not a successful Load removes no NameSet and no
\* Element: every name of the two registries is still there after it.
C21_OnlyLoadRemovesNames ==
    [][~(last'.op = "onload" /\ last'.res = "loaded") =>
          /\ KeySet(config.nameSets) \subseteq KeySet(config'.nameSets)
          /\ KeySet(config.elements) \subseteq KeySet(config'.elements)]_vars

\* C22: a reorder changes the template the active NameSet owns, so that
\* the NameSet's template is the reordered sequence; setActive shows the
\* template the NameSet owns; and a NameSet created by createNameSet gets
\* the sequence that was displayed, reordered or not.
C22_ReorderIsOwnedByNameSet ==
    [][/\ (last'.op = "handleDragEnd" /\ last'.res = "moved") =>
             ObjGet(config'.nameSets, activeNameSet').template = templateOrder'
       /\ last'.op = "handleNameSetChange" =>
             templateOrder' = ObjGet(config'.nameSets, activeNameSet').template
       /\ (last'.op = "handleCreateNameSet" /\ last'.res = "created") =>
             ObjGet(config'.nameSets, activeNameSet').template = templateOrder
      ]_vars

\* the active NameSet has a stored template and the displayed template
\* is related to it by rel
DisplayedIs(rel(_, _)) ==
    /\ "template" \in DOMAIN ObjGet(config.nameSets, activeNameSet)
    /\ rel(templateOrder, ObjGet(config.nameSets, activeNameSet).template)

\* C23: while the active NameSet is in the registry, the displayed
\* template is a permutation of the template stored for it, and it is
\* that template right after setActive, createNameSet and Load.
C23_DisplayedIsPermutationOfStored ==
    ObjHas(config.nameSets, activeNameSet) =>
        /\ DisplayedIs(IsPermutation)
        /\ (\/ last.op = "handleNameSetChange"
            \/ last.op = "handleCreateNameSet" /\ last.res = "created"
            \/ Loaded) => DisplayedIs(LAMBDA s, t : s = t)

\* C24: updateMeta adds no name to the NameSet registry and changes only
\* the given field of the active NameSet: its other fields, every other
\* NameSet, the order of the registry and all Elements stay as they were.
C24_UpdateMetaChangesOneField ==
    [][last'.op = "handleUpdateNameSetMeta" =>
          LET before == ObjGet(config.nameSets, activeNameSet)
              after == ObjGet(config'.nameSets, activeNameSet)
          IN  /\ ObjKeys(config'.nameSets) = ObjKeys(config.nameSets)
              /\ DOMAIN after = DOMAIN before \cup {last'.field}
              /\ \A f \in DOMAIN before \ {last'.field} :
                    after[f] = before[f]
              /\ \A ns \in KeySet(config.nameSets) \ {activeNameSet} :
                    ObjGet(config'.nameSets, ns) = ObjGet(config.nameSets, ns)
              /\ config'.elements = config.elements]_vars

\* C25: the selection of each Element is unset or one of the Element's
\* terms.
C25_SelectionIsATerm ==
    \A i \in DOMAIN config.elements :
        LET wc == config.elements[i][1]
            def == config.elements[i][2]
        IN  (wc \in DOMAIN selections /\ selections[wc] # "") =>
                /\ "terms" \in DOMAIN def
                /\ Includes(def.terms, selections[wc])

\* C26: the active NameSet name is a key of the NameSet registry.
C26_ActiveIsInRegistry == ObjHas(config.nameSets, activeNameSet)

\* C26, amended: the active NameSet name is a key of the NameSet
\* registry, or the registry is empty and the active name is "".
C26_ActiveIsInRegistryUnlessEmpty ==
    IF config.nameSets = <<>>
    THEN activeNameSet = ""
    ELSE ObjHas(config.nameSets, activeNameSet)

\* a NameSet was created in a Project loaded without NameSets and is
\* the active one
C26_Witness ==
    /\ last.op = "handleCreateNameSet"
    /\ last.res = "created"
    /\ config.project_name = FileEmpty.project_name
    /\ ObjKeys(config.nameSets) = <<activeNameSet>>

=============================================================================
